---- MODULE Spec2Model ----
(***************************************************************************)
(* FileNest: the organize-and-watch engine of file_organizer.py (command   *)
(* line) and the organize/protect operations of app.py (web dashboard).    *)
(*                                                                         *)
(* File and folder names are sequences of one-character strings, so that   *)
(* Path.suffix, Path.stem, str.lower and the "stem(k)ext" renaming are     *)
(* computed as the code computes them.                                     *)
(***************************************************************************)
EXTENDS Integers, Sequences, FiniteSets, TLC

VARIABLES
  mode,        \* which entry point runs: "once", "event", "poll", "web", "fn"
  fs,          \* watch_directory: [exists, files: name -> id, dirs: name -> (name -> id)]
  locked,      \* ids of the files whose shutil.move raises (in use, read-only)
  nextId,      \* id of the next file the environment creates
  creations,   \* writes (create, report again, modify) the environment has made so far
  pc,          \* control point of the entry point
  processed_files, \* the watch session's processed set (paths, as root names)
  queue,       \* event mode: notifications the observer has not dispatched yet
  cur,         \* the organize_file calls in progress: the notification on_created
               \* is sleeping on, the entry the polling tick is moving
  pending,     \* entries of the current listing the loop has not visited yet
  acc,         \* the running pass: its dry_run flag and its counters
  ticks,       \* poll mode: ticks started
  passes,      \* one-shot passes / web requests started
  last,        \* the last finished operation: name, arguments and result
  pre,         \* the filesystem had the running (or last) pass done nothing
  dirty,       \* the environment changed the root since the last real pass listed it
  calls,       \* file id -> organize_file calls the Running watch session made on it
  sessionNew,  \* ids of the files created while the watch session was Running
  baseline,    \* the watch start ran its full organize pass
  seen,        \* poll mode: ids of the root files the last started tick listed
  started,     \* the root listing and the processed set when the session began Running
  fn           \* pure-function harness: arguments and return value

vars == <<mode, fs, locked, nextId, creations, pc, processed_files, queue, cur,
          pending, acc, ticks, passes, last, pre, dirty, calls, sessionNew,
          baseline, seen, started, fn>>

-----------------------------------------------------------------------------
(* Category names, as folder names.  file_organizer.py:29-37, app.py:17-24 *)

Images == <<"I","m","a","g","e","s">>

Documents == <<"D","o","c","u","m","e","n","t","s">>

Audio == <<"A","u","d","i","o">>

Videos == <<"V","i","d","e","o","s">>

Archives == <<"A","r","c","h","i","v","e","s">>

Code == <<"C","o","d","e">>

Executables == <<"E","x","e","c","u","t","a","b","l","e","s">>

Others == <<"O","t","h","e","r","s">>

ImagesExtensions ==
  {
    <<".","j","p","g">>, <<".","j","p","e","g">>, <<".","p","n","g">>, <<".","g","i","f">>,
    <<".","b","m","p">>, <<".","s","v","g">>, <<".","w","e","b","p">>, <<".","i","c","o">>,
    <<".","t","i","f","f">>, <<".","t","i","f">>, <<".","r","a","w">>, <<".","p","s","d">>,
    <<".","a","i">>
  }

DocumentsExtensions ==
  {
    <<".","p","d","f">>, <<".","d","o","c">>, <<".","d","o","c","x">>, <<".","t","x","t">>,
    <<".","r","t","f">>, <<".","o","d","t">>, <<".","x","l","s">>, <<".","x","l","s","x">>,
    <<".","p","p","t">>, <<".","p","p","t","x">>, <<".","c","s","v">>, <<".","m","d">>,
    <<".","e","p","u","b">>
  }

AudioExtensions ==
  {
    <<".","m","p","3">>, <<".","w","a","v">>, <<".","f","l","a","c">>, <<".","a","a","c">>,
    <<".","o","g","g">>, <<".","w","m","a">>, <<".","m","4","a">>, <<".","o","p","u","s">>,
    <<".","a","i","f","f">>
  }

VideosExtensions ==
  {
    <<".","m","p","4">>, <<".","a","v","i">>, <<".","m","k","v">>, <<".","m","o","v">>,
    <<".","w","m","v">>, <<".","f","l","v">>, <<".","w","e","b","m">>, <<".","m","4","v">>,
    <<".","m","p","e","g">>, <<".","m","p","g">>, <<".","3","g","p">>
  }

ArchivesExtensions ==
  {
    <<".","z","i","p">>, <<".","r","a","r">>, <<".","7","z">>, <<".","t","a","r">>,
    <<".","g","z">>, <<".","b","z","2">>, <<".","x","z">>, <<".","i","s","o">>
  }

CodeExtensions ==
  {
    <<".","p","y">>, <<".","j","s">>, <<".","j","a","v","a">>, <<".","c">>, <<".","c","p","p">>,
    <<".","h">>, <<".","c","s">>, <<".","p","h","p">>, <<".","r","b">>, <<".","g","o">>,
    <<".","r","s">>, <<".","s","w","i","f","t">>, <<".","k","t">>, <<".","h","t","m","l">>,
    <<".","c","s","s">>, <<".","j","s","o","n">>, <<".","x","m","l">>, <<".","y","a","m","l">>,
    <<".","y","m","l">>
  }

ExecutablesExtensions ==
  {
    <<".","e","x","e">>, <<".","m","s","i">>, <<".","d","m","g">>, <<".","a","p","p">>,
    <<".","d","e","b">>, <<".","r","p","m">>, <<".","s","h">>, <<".","b","a","t">>,
    <<".","c","m","d">>
  }

(* FILE_EXTENSION_MAP in insertion order: the reverse map is filled category *)
(* by category, a later category overwriting an earlier one's extension.     *)
FILE_EXTENSION_MAP ==
  << <<Images, ImagesExtensions>>, <<Documents, DocumentsExtensions>>,
     <<Audio, AudioExtensions>>, <<Videos, VideosExtensions>>,
     <<Archives, ArchivesExtensions>>, <<Code, CodeExtensions>>,
     <<Executables, ExecutablesExtensions>> >>

(* app.py has the same table without Executables. *)
APP_FILE_EXTENSION_MAP == SubSeq(FILE_EXTENSION_MAP, 1, 6)

PROTECTED_DIR == <<"p","r","o","t","e","c","t","e","d","_","f","i","l","e","s">>

(* os.path.basename(__file__) of the command-line script. *)
script_name == <<"f","i","l","e","_","o","r","g","a","n","i","z","e","r",".","p","y">>

-----------------------------------------------------------------------------
(* Strings *)

UpperToLower ==
  [A |-> "a", B |-> "b", C |-> "c", D |-> "d", E |-> "e", F |-> "f", G |-> "g",
   H |-> "h", I |-> "i", J |-> "j", K |-> "k", L |-> "l", M |-> "m", N |-> "n",
   O |-> "o", P |-> "p", Q |-> "q", R |-> "r", S |-> "s", T |-> "t", U |-> "u",
   V |-> "v", W |-> "w", X |-> "x", Y |-> "y", Z |-> "z"]

(* str.lower() *)
Lower(s) ==
  [i \in 1..Len(s) |-> IF s[i] \in DOMAIN UpperToLower THEN UpperToLower[s[i]] ELSE s[i]]

DecimalDigits == <<"0","1","2","3","4","5","6","7","8","9">>

(* str(counter) inside the f-string *)
RECURSIVE Str(_)
Str(k) ==
  IF k < 10 THEN <<DecimalDigits[k + 1]>>
  ELSE Str(k \div 10) \o <<DecimalDigits[(k % 10) + 1]>>

(* str.rfind('.'), 1-based; 0 when there is no dot *)
RFindDot(name) ==
  LET dots == {i \in 1..Len(name) : name[i] = "."}
  IN  IF dots = {} THEN 0 ELSE CHOOSE i \in dots : \A j \in dots : j <= i

(* PurePath.suffix: the last dot and what follows it, unless that dot is the *)
(* first or the last character of the name.                                  *)
Suffix(name) ==
  LET i == RFindDot(name)
  IN  IF 1 < i /\ i < Len(name) THEN SubSeq(name, i, Len(name)) ELSE <<>>

(* PurePath.stem *)
Stem(name) ==
  LET i == RFindDot(name)
  IN  IF 1 < i /\ i < Len(name) THEN SubSeq(name, 1, i - 1) ELSE name

-----------------------------------------------------------------------------
(* Category Registry *)

(* The dict built by the two nested loops: EXTENSION_TO_CATEGORY.get(ext,    *)
(* 'Others') over the table `map`.                                           *)
ExtensionLookup(map, ext) ==
  LET hits == {i \in 1..Len(map) : \E e \in map[i][2] : Lower(e) = ext}
  IN  IF hits = {} THEN Others
      ELSE map[CHOOSE i \in hits : \A j \in hits : j <= i][1]

EXTENSION_TO_CATEGORY(ext) == ExtensionLookup(FILE_EXTENSION_MAP, ext)

APP_EXTENSION_TO_CATEGORY(ext) == ExtensionLookup(APP_FILE_EXTENSION_MAP, ext)

(* Mutant: the lookup without .lower() *)
get_category_for_file_nolower(filename) == EXTENSION_TO_CATEGORY(Suffix(filename))

(* get_category_for_file, file_organizer.py:50-61 *)
get_category_for_file(filename) == EXTENSION_TO_CATEGORY(Lower(Suffix(filename)))

(* get_category_for_file, app.py:50-53 *)
app_get_category_for_file(filename) == APP_EXTENSION_TO_CATEGORY(Lower(Suffix(filename)))

-----------------------------------------------------------------------------
(* Unique Namer *)

(* The f-string f"{name}({counter}){extension}" *)
Candidate(name, counter, extension) ==
  name \o <<"(">> \o Str(counter) \o <<")">> \o extension

(* The `while True` loop: entries is what exists in destination_dir. *)
RECURSIVE UniqueLoop(_, _, _, _)
UniqueLoop(entries, name, extension, counter) ==
  IF Candidate(name, counter, extension) \notin entries
  THEN Candidate(name, counter, extension)
  ELSE UniqueLoop(entries, name, extension, counter + 1)

(* Mutant: the counter starts at 0 *)
generate_unique_filename_from0(entries, filename) ==
  IF filename \notin entries THEN filename
  ELSE UniqueLoop(entries, Stem(filename), Suffix(filename), 0)

(* Mutant: the name is returned as given, taken or not *)
generate_unique_filename_same(entries, filename) == filename

(* generate_unique_filename(destination_dir, filename), the same code in     *)
(* file_organizer.py:64-92 and app.py:56-72                                  *)
generate_unique_filename(entries, filename) ==
  IF filename \notin entries THEN filename
  ELSE UniqueLoop(entries, Stem(filename), Suffix(filename), 1)

-----------------------------------------------------------------------------
(* Filesystem primitives over fs = [exists, files, dirs] *)

EmptyDir == [x \in {} |-> 0]

(* os.listdir(watch_directory) *)
Listdir(f) == DOMAIN f.files \cup DOMAIN f.dirs

(* os.path.exists(os.path.join(watch_directory, name)) *)
PathExists(f, name) == f.exists /\ name \in Listdir(f)

(* os.path.isdir / os.path.isfile of a root entry *)
IsDir(f, name) == f.exists /\ name \in DOMAIN f.dirs

IsFile(f, name) == f.exists /\ name \in DOMAIN f.files

(* What Path(destination_dir) / x exists for: the entries of the folder, and *)
(* nothing when destination_dir is missing or is a regular file.             *)
Entries(f, d) == IF IsDir(f, d) THEN DOMAIN f.dirs[d] ELSE {}

(* os.makedirs(os.path.join(watch_directory, d)): creates watch_directory too *)
Makedirs(f, d) == [f EXCEPT !.exists = TRUE, !.dirs = (d :> EmptyDir) @@ @]

Remove(g, name) == [n \in DOMAIN g \ {name} |-> g[n]]

(* shutil.move raises: the source vanished, the file is in use or read-only, *)
(* or the destination folder is not a folder.                                *)
ShutilMoveRaises(f, lk, filename, d) ==
  \/ ~IsFile(f, filename)
  \/ f.files[filename] \in lk
  \/ ~IsDir(f, d)

(* Mutant: a move that leaves the source in place (a copy) *)
ShutilMoveCopies(f, filename, d, unique) ==
  [f EXCEPT !.dirs[d] = (unique :> f.files[filename]) @@ @]

(* shutil.move(root/filename, root/d/unique), when it does not raise *)
ShutilMove(f, filename, d, unique) ==
  [f EXCEPT !.files = Remove(@, filename),
            !.dirs[d] = (unique :> f.files[filename]) @@ @]

-----------------------------------------------------------------------------
(* Organizer (file_organizer.py) *)

is_script_file(filename, name) == filename = name

(* Mutant: organize_file without the directory check of lines 130-131 *)
organize_file_any(f, lk, filename, dry_run) ==
  IF is_script_file(filename, script_name) THEN [fs |-> f, ret |-> FALSE]
  ELSE LET category == get_category_for_file(filename)
           f1 == IF ~PathExists(f, category) THEN Makedirs(f, category) ELSE f
       IN  IF dry_run THEN [fs |-> f1, ret |-> TRUE]
           ELSE [fs |-> f1, ret |-> FALSE]

(* organize_file(join(watch_directory, filename), watch_directory, dry_run): *)
(* the filesystem it leaves and the value it returns.                        *)
organize_file(f, lk, filename, dry_run) ==
  IF is_script_file(filename, script_name) THEN [fs |-> f, ret |-> FALSE]
  ELSE IF IsDir(f, filename) THEN [fs |-> f, ret |-> FALSE]
  ELSE
    LET category == get_category_for_file(filename)
        destination_dir == category
        f1 == IF ~PathExists(f, destination_dir) THEN Makedirs(f, destination_dir) ELSE f
        unique_filename == generate_unique_filename(Entries(f1, destination_dir), filename)
    IN  IF dry_run THEN [fs |-> f1, ret |-> TRUE]
        ELSE IF ShutilMoveRaises(f1, lk, filename, destination_dir)
             THEN [fs |-> f1, ret |-> FALSE]
             ELSE [fs |-> ShutilMove(f1, filename, destination_dir, unique_filename),
                   ret |-> TRUE]

(* os.listdir returns the entries in arbitrary order.  An entry the loop    *)
(* skips without touching the filesystem (it is in skipped, and stays so)    *)
(* commutes with every other visit, so the skipped entries are visited       *)
(* first, in one order, and the remaining ones in every order.               *)
NextEntries(pend, skipped) ==
  IF skipped # {} THEN {CHOOSE e \in skipped : TRUE} ELSE pend

-----------------------------------------------------------------------------
(* Bounds and the names the checked runs use *)

MaxCreate == 2

MaxPasses == 2

MaxTicks == 2

MaxQueue == 2

MaxProbe == 3

report_pdf == <<"r","e","p","o","r","t",".","p","d","f">>

photo_jpg == <<"p","h","o","t","o",".","j","p","g">>

script_py == <<"s","c","r","i","p","t",".","p","y">>

new_mp3 == <<"n","e","w",".","m","p","3">>

notes_TXT == <<"n","o","t","e","s",".","T","X","T">>

dot_env == <<".","e","n","v">>

stuff == <<"s","t","u","f","f">>

archive_tar_gz == <<"a","r","c","h","i","v","e",".","t","a","r",".","g","z">>

README == <<"R","E","A","D","M","E">>

setup_EXE == <<"s","e","t","u","p",".","E","X","E">>

data_xyz == <<"d","a","t","a",".","x","y","z">>

dot_pdf == <<".","p","d","f">>

(* Names the environment creates at the root while the program runs *)
CreateNames == {new_mp3, report_pdf}

EnvDirNames == {stuff}

(* the names that protect and unprotect requests are made for *)
ProtectNames == {report_pdf, PROTECTED_DIR}

Modes == {"once", "event", "poll", "web"}

File(n, i) == n :> i

LayoutEmpty == [exists |-> TRUE, files |-> EmptyDir, dirs |-> EmptyDir]

LayoutMissing == [exists |-> FALSE, files |-> EmptyDir, dirs |-> EmptyDir]

(* report.pdf, photo.jpg and script.py at the root, Documents/report.pdf *)
LayoutScenario ==
  [exists |-> TRUE,
   files |-> File(report_pdf, 1) @@ File(photo_jpg, 2) @@ File(script_py, 3),
   dirs |-> Documents :> File(report_pdf, 4)]

(* an upper-case extension, the script's own name, a hidden file, a folder *)
LayoutMixed ==
  [exists |-> TRUE,
   files |-> File(notes_TXT, 1) @@ File(script_name, 2) @@ File(dot_env, 3),
   dirs |-> (stuff :> EmptyDir) @@ (Documents :> File(notes_TXT, 4))]

(* a regular file that bears the reserved folder name *)
LayoutReserved ==
  [exists |-> TRUE, files |-> File(PROTECTED_DIR, 1), dirs |-> EmptyDir]

(* the protected folder holds a report.pdf, and so does the root *)
LayoutVault ==
  [exists |-> TRUE,
   files |-> File(report_pdf, 1),
   dirs |-> PROTECTED_DIR :> File(report_pdf, 2)]

Layouts == {LayoutEmpty, LayoutMissing, LayoutScenario, LayoutMixed, LayoutReserved,
            LayoutVault}

Ids(f) ==
  {f.files[n] : n \in DOMAIN f.files}
    \cup UNION {{f.dirs[d][n] : n \in DOMAIN f.dirs[d]} : d \in DOMAIN f.dirs}

RootIds(f) == {f.files[n] : n \in DOMAIN f.files}

(* listed (ghost): the root as os.listdir saw it at the start of a web pass *)
NoAcc == [dry |-> FALSE, clean |-> FALSE, organized |-> 0, errors |-> 0, skipped |-> 0,
          failed |-> 0, listed |-> [files |-> EmptyDir, dirs |-> {}]]

NoLast == [op |-> "none", dry |-> FALSE, clean |-> FALSE,
           organized |-> 0, errors |-> 0, skipped |-> 0, failed |-> 0, path |-> <<>>]

NoStart == [root |-> {}, files |-> {}, processed |-> {}]

(* counter: the loop variable of generate_unique_filename; probed (ghost):   *)
(* the counters whose candidate name the loop has tested, in order           *)
NoFn == [op |-> "none", entries |-> {}, filename |-> <<>>, ret |-> <<>>,
         counter |-> 0, probed |-> <<>>]

Init ==
  /\ mode \in Modes
  /\ fs \in Layouts
  /\ locked \in {{}} \cup {{i} : i \in RootIds(fs)}
  /\ nextId = Cardinality(Ids(fs)) + 1
  /\ creations = 0
  /\ pc = "Idle"
  /\ processed_files = {}
  /\ queue = <<>>
  /\ cur = <<>>
  /\ pending = {}
  /\ acc = NoAcc
  /\ ticks = 0
  /\ passes = 0
  /\ last = NoLast
  /\ pre = fs
  /\ dirty = TRUE
  /\ calls = [i \in Ids(fs) |-> 0]
  /\ sessionNew = {}
  /\ baseline = FALSE
  /\ seen = {}
  /\ started = NoStart
  /\ fn = NoFn

-----------------------------------------------------------------------------
(* The environment: other programs writing into watch_directory *)

Watching == mode \in {"event", "poll"} /\ pc \in {"Running", "LoopTop", "Ticking", "Moving"}

Notify(path, isdir) ==
  IF mode = "event" /\ pc = "Running"
  THEN Append(queue, [event_type |-> "created", src_path |-> path, is_directory |-> isdir])
  ELSE queue

(* A path created while a pass is going through its listing is not in that  *)
(* listing and no entry's step reads it, so the creation commutes with the   *)
(* entries' steps: it is taken once the listing is exhausted, before the     *)
(* pass returns.                                                             *)
AfterListedEntries == pc \in {"Pass", "All"} => pending = {}

(* A program creates a regular file at the root; lk: the file stays in use,  *)
(* so that moving it raises.                                                 *)
CreateFile(n, lk) ==
  /\ mode # "fn" /\ pc # "Stopped"
  /\ fs.exists
  /\ creations < MaxCreate
  /\ n \notin Listdir(fs)
  /\ AfterListedEntries
  /\ (mode = "event" /\ pc = "Running") => Len(queue) < MaxQueue
  /\ fs' = [fs EXCEPT !.files = File(n, nextId) @@ @]
  /\ pre' = IF mode \in {"once", "web"}
            THEN [pre EXCEPT !.files = File(n, nextId) @@ @] ELSE pre
  /\ locked' = IF lk THEN locked \cup {nextId} ELSE locked
  /\ nextId' = nextId + 1
  /\ creations' = creations + 1
  /\ calls' = File(nextId, 0) @@ calls
  /\ sessionNew' = IF Watching THEN sessionNew \cup {nextId} ELSE sessionNew
  /\ queue' = Notify(n, FALSE)
  /\ dirty' = TRUE
  /\ UNCHANGED <<mode, pc, processed_files, cur, pending, acc, ticks, passes, last,
                 baseline, seen, started, fn>>

(* A program creates a folder at the root. *)
CreateDir(n) ==
  /\ mode # "fn" /\ pc # "Stopped"
  /\ fs.exists
  /\ creations < MaxCreate
  /\ n \notin Listdir(fs)
  /\ AfterListedEntries
  /\ (mode = "event" /\ pc = "Running") => Len(queue) < MaxQueue
  /\ fs' = [fs EXCEPT !.dirs = (n :> EmptyDir) @@ @]
  /\ pre' = IF mode \in {"once", "web"}
            THEN [pre EXCEPT !.dirs = (n :> EmptyDir) @@ @] ELSE pre
  /\ creations' = creations + 1
  /\ queue' = Notify(n, TRUE)
  /\ UNCHANGED <<mode, locked, nextId, pc, processed_files, cur, pending, acc, ticks,
                 passes, last, dirty, calls, sessionNew, baseline, seen, started, fn>>

(* The operating system reports the creation of a path a second time. *)
Renotify(n) ==
  /\ mode = "event" /\ pc = "Running"
  /\ creations < MaxCreate
  /\ Len(queue) < MaxQueue
  /\ \/ n \in processed_files
     \/ \E i \in 1..Len(queue) : /\ queue[i].src_path = n /\ ~queue[i].is_directory
                                 /\ queue[i].event_type = "created"
     \/ \E i \in 1..Len(cur) : cur[i].src_path = n
  /\ creations' = creations + 1
  /\ queue' = Append(queue, [event_type |-> "created", src_path |-> n, is_directory |-> FALSE])
  /\ UNCHANGED <<mode, fs, locked, nextId, pc, processed_files, cur, pending,
                 acc, ticks, passes, last, pre, dirty, calls, sessionNew, baseline,
                 seen, started, fn>>

(* A program writes again to a file it had created at the root, still there  *)
(* or moved by the organizer since: the observer reports a modification.     *)
ModifyFile(n) ==
  /\ mode = "event" /\ pc = "Running"
  /\ creations < MaxCreate
  /\ Len(queue) < MaxQueue
  /\ n \in DOMAIN fs.files \/ n \in processed_files
  /\ creations' = creations + 1
  /\ queue' = Append(queue, [event_type |-> "modified", src_path |-> n, is_directory |-> FALSE])
  /\ UNCHANGED <<mode, fs, locked, nextId, pc, processed_files, cur, pending,
                 acc, ticks, passes, last, pre, dirty, calls, sessionNew, baseline,
                 seen, started, fn>>

-----------------------------------------------------------------------------
(* organize_directory, one loop iteration per step *)

Finished(op) ==
  [op |-> op, dry |-> acc.dry, clean |-> acc.clean,
   organized |-> acc.organized, errors |-> acc.errors, skipped |-> acc.skipped,
   failed |-> acc.failed, path |-> <<>>]

(* Ghost: the call of organize_file on entry reaches shutil.move (line 155)  *)
(* and the move raises, so that line 159 returns False.                      *)
MoveFailed(f, lk, entry, dry_run) ==
  /\ ~is_script_file(entry, script_name)
  /\ ~IsDir(f, entry)
  /\ ~dry_run
  /\ ~organize_file(f, lk, entry, dry_run).ret

(* Lines 178-189: the existence check and os.listdir; the one-shot command. *)
OrganizeDirectoryBegin(dry_run) ==
  /\ mode = "once" /\ pc = "Idle"
  /\ passes < MaxPasses
  /\ passes' = passes + 1
  /\ pre' = fs
  /\ IF ~fs.exists
     THEN /\ last' = [NoLast EXCEPT !.op = "organize_directory", !.dry = dry_run]
          /\ UNCHANGED <<pc, pending, acc, dirty>>
     ELSE /\ pc' = "Pass"
          /\ pending' = Listdir(fs)
          /\ acc' = [NoAcc EXCEPT !.dry = dry_run, !.clean = ~dirty]
          /\ dirty' = IF dry_run THEN dirty ELSE FALSE
          /\ UNCHANGED last
  /\ UNCHANGED <<mode, fs, locked, nextId, creations, processed_files, queue, cur,
                 ticks, calls, sessionNew, baseline, seen, started, fn>>

(* Lines 191-195: one entry of the listing. *)
OrganizeDirectoryEntry ==
  /\ pc = "Pass" /\ pending # {}
  /\ \E entry \in NextEntries(pending, {e \in pending : IsDir(fs, e) \/ e = script_name}) :
       LET r == organize_file(fs, locked, entry, acc.dry)
       IN  /\ fs' = r.fs
           /\ acc' = [acc EXCEPT !.organized = IF r.ret THEN @ + 1 ELSE @,
                                 !.failed = IF MoveFailed(fs, locked, entry, acc.dry)
                                            THEN @ + 1 ELSE @]
           /\ pending' = pending \ {entry}
  /\ UNCHANGED <<mode, locked, nextId, creations, pc, processed_files, queue, cur,
                 ticks, passes, last, pre, dirty, calls, sessionNew, baseline, seen, started, fn>>

(* Lines 197-200: return files_organized. *)
OrganizeDirectoryReturn ==
  /\ mode = "once" /\ pc = "Pass" /\ pending = {}
  /\ last' = Finished("organize_directory")
  /\ pc' = "Idle"
  /\ acc' = NoAcc
  /\ UNCHANGED <<mode, fs, locked, nextId, creations, processed_files, queue, cur,
                 pending, ticks, passes, pre, dirty, calls, sessionNew, baseline,
                 seen, started, fn>>

-----------------------------------------------------------------------------
(* Watch mode with watchdog: watch_directory and FileOrganizerHandler *)

Called(name) ==
  IF IsFile(fs, name) THEN [calls EXCEPT ![fs.files[name]] = @ + 1] ELSE calls

(* Lines 247-261: the checks, then organize_directory(watch_directory) begins. *)
WatchDirectoryBegin ==
  /\ mode = "event" /\ pc = "Idle"
  /\ IF ~fs.exists
     THEN pc' = "Stopped" /\ UNCHANGED <<pending, acc>>
     ELSE /\ pc' = "Pass"
          /\ pending' = Listdir(fs)
          /\ acc' = NoAcc
  /\ UNCHANGED <<mode, fs, locked, nextId, creations, processed_files, queue, cur,
                 ticks, passes, last, pre, dirty, calls, sessionNew, baseline, seen, started, fn>>

(* Lines 261-267: organize_directory returns; FileOrganizerHandler.__init__  *)
(* makes an empty processed set and the observer starts.                     *)
WatchDirectoryObserve ==
  /\ mode = "event" /\ pc = "Pass" /\ pending = {}
  /\ last' = Finished("organize_directory")
  /\ acc' = NoAcc
  /\ baseline' = TRUE
  /\ processed_files' = {}
  /\ started' = [root |-> Listdir(fs), files |-> DOMAIN fs.files, processed |-> {}]
  /\ queue' = <<>>
  /\ pc' = "Running"
  /\ UNCHANGED <<mode, fs, locked, nextId, creations, cur, pending, ticks, passes,
                 pre, dirty, calls, sessionNew, seen, fn>>

(* Mutant: a notification is taken up while an earlier one is being handled *)
OnCreatedBeginConcurrent ==
  /\ mode = "event" /\ pc = "Running"
  /\ queue # <<>> /\ Head(queue).event_type = "created"
  /\ queue' = Tail(queue)
  /\ cur' = IF Head(queue).is_directory THEN cur ELSE Append(cur, Head(queue))
  /\ UNCHANGED <<mode, fs, locked, nextId, creations, pc, processed_files, pending,
                 acc, ticks, passes, last, pre, dirty, calls, sessionNew, baseline,
                 seen, started, fn>>

(* on_created, lines 217-221: the observer thread takes the next notification; *)
(* a folder's is dropped, a file's is slept on for the settle delay.           *)
OnCreatedBegin ==
  /\ mode = "event" /\ pc = "Running"
  /\ cur = <<>> /\ queue # <<>> /\ Head(queue).event_type = "created"
  /\ queue' = Tail(queue)
  /\ cur' = IF Head(queue).is_directory THEN <<>> ELSE <<Head(queue)>>
  /\ UNCHANGED <<mode, fs, locked, nextId, creations, pc, processed_files, pending,
                 acc, ticks, passes, last, pre, dirty, calls, sessionNew, baseline,
                 seen, started, fn>>

(* Mutant: a modification is handled as a creation *)
OnModifiedOrganizes ==
  /\ mode = "event" /\ pc = "Running"
  /\ cur = <<>> /\ queue # <<>> /\ Head(queue).event_type = "modified"
  /\ queue' = Tail(queue)
  /\ cur' = <<Head(queue)>>
  /\ last' = [NoLast EXCEPT !.op = "on_modified", !.path = Head(queue).src_path]
  /\ UNCHANGED <<mode, fs, locked, nextId, creations, pc, processed_files, pending,
                 acc, ticks, passes, pre, dirty, calls, sessionNew, baseline,
                 seen, started, fn>>

(* on_modified, lines 233-237: the observer thread takes a modification      *)
(* notification; the handler's body is `pass`.                               *)
OnModified ==
  /\ mode = "event" /\ pc = "Running"
  /\ cur = <<>> /\ queue # <<>> /\ Head(queue).event_type = "modified"
  /\ queue' = Tail(queue)
  /\ last' = [NoLast EXCEPT !.op = "on_modified", !.path = Head(queue).src_path]
  /\ UNCHANGED <<mode, fs, locked, nextId, creations, pc, processed_files, cur, pending,
                 acc, ticks, passes, pre, dirty, calls, sessionNew, baseline,
                 seen, started, fn>>

(* on_created, lines 223-231: after the sleep. *)
OnCreatedFinish ==
  /\ mode = "event" /\ pc \in {"Running", "Stopping"}
  /\ cur # <<>>
  /\ LET filepath == cur[1].src_path
         r == organize_file(fs, locked, filepath, FALSE)
     IN  IF filepath \in processed_files
         THEN UNCHANGED <<fs, processed_files, calls>>
         ELSE /\ fs' = r.fs
              /\ calls' = Called(filepath)
              /\ processed_files' = processed_files \cup {filepath}
  /\ cur' = <<>>
  /\ UNCHANGED <<mode, locked, nextId, creations, pc, queue, pending, acc, ticks,
                 passes, last, pre, dirty, sessionNew, baseline, seen, started, fn>>

(* Lines 272-274: KeyboardInterrupt in the main thread, observer.stop(). *)
WatchDirectoryInterrupt ==
  /\ mode = "event" /\ pc = "Running"
  /\ pc' = "Stopping"
  /\ UNCHANGED <<mode, fs, locked, nextId, creations, processed_files, queue, cur,
                 pending, acc, ticks, passes, last, pre, dirty, calls, sessionNew,
                 baseline, seen, started, fn>>

(* Lines 276-277: observer.join() returns once the observer thread has ended. *)
WatchDirectoryJoin ==
  /\ mode = "event" /\ pc = "Stopping"
  /\ cur = <<>>
  /\ pc' = "Stopped"
  /\ UNCHANGED <<mode, fs, locked, nextId, creations, processed_files, queue, cur,
                 pending, acc, ticks, passes, last, pre, dirty, calls, sessionNew,
                 baseline, seen, started, fn>>

-----------------------------------------------------------------------------
(* Watch mode without watchdog: watch_directory_loop *)

(* Mutant: nothing is marked processed *)
SeedNothing(f) == {}

(* Lines 297-301: the regular files at the root of an existing directory *)
SeedProcessed(f) == IF f.exists THEN {n \in Listdir(f) : IsFile(f, n)} ELSE {}

(* Lines 293-304: the regular files now at the root are marked processed;    *)
(* nothing is organized.                                                     *)
WatchLoopBegin ==
  /\ mode = "poll" /\ pc = "Idle"
  /\ processed_files' = SeedProcessed(fs)
  /\ started' = [root |-> IF fs.exists THEN Listdir(fs) ELSE {},
                 files |-> IF fs.exists THEN DOMAIN fs.files ELSE {},
                 processed |-> processed_files']
  /\ pc' = "LoopTop"
  /\ UNCHANGED <<mode, fs, locked, nextId, creations, queue, cur, pending, acc, ticks,
                 passes, last, pre, dirty, calls, sessionNew, baseline, seen, fn>>

(* Lines 307-309: the top of `while True`, os.listdir. *)
WatchLoopList ==
  /\ mode = "poll" /\ pc = "LoopTop"
  /\ ticks < MaxTicks
  /\ ticks' = ticks + 1
  /\ pending' = IF fs.exists THEN Listdir(fs) ELSE {}
  /\ seen' = IF fs.exists THEN RootIds(fs) ELSE {}
  /\ pc' = "Ticking"
  /\ UNCHANGED <<mode, fs, locked, nextId, creations, processed_files, queue, cur, acc,
                 passes, last, pre, dirty, calls, sessionNew, baseline, started, fn>>

(* Lines 315-316: organize_file on the entry returns and the path is added   *)
(* to processed_files when it returned True.                                 *)
LoopEntry(entry) ==
  LET r == organize_file(fs, locked, entry, FALSE)
  IN  /\ fs' = r.fs
      /\ calls' = Called(entry)
      /\ processed_files' = IF r.ret THEN processed_files \cup {entry}
                            ELSE processed_files

(* Lines 309-315: one entry of the tick's listing; organize_file is entered  *)
(* for a regular file that is not in processed_files.                        *)
WatchLoopEntry ==
  /\ mode = "poll" /\ pc = "Ticking" /\ pending # {}
  /\ \E entry \in NextEntries(pending,
                     {e \in pending : ~IsFile(fs, e) \/ e \in processed_files}) :
       /\ pending' = pending \ {entry}
       /\ IF IsFile(fs, entry) /\ entry \notin processed_files
          THEN /\ cur' = <<[src_path |-> entry, is_directory |-> FALSE]>>
               /\ pc' = "Moving"
          ELSE UNCHANGED <<cur, pc>>
  /\ UNCHANGED <<mode, fs, locked, nextId, creations, processed_files, queue, acc, ticks,
                 passes, last, pre, dirty, calls, sessionNew, baseline, seen, started, fn>>

(* Lines 315-316: the call of organize_file made by the tick returns. *)
WatchLoopOrganized ==
  /\ mode = "poll" /\ pc = "Moving"
  /\ LoopEntry(cur[1].src_path)
  /\ cur' = <<>>
  /\ pc' = "Ticking"
  /\ UNCHANGED <<mode, locked, nextId, creations, queue, pending, acc, ticks, passes,
                 last, pre, dirty, sessionNew, baseline, seen, started, fn>>

(* Line 318: time.sleep(interval), then back to the top of the loop. *)
WatchLoopSleep ==
  /\ mode = "poll" /\ pc = "Ticking" /\ pending = {}
  /\ pc' = "LoopTop"
  /\ UNCHANGED <<mode, fs, locked, nextId, creations, processed_files, queue, cur,
                 pending, acc, ticks, passes, last, pre, dirty, calls, sessionNew,
                 baseline, seen, started, fn>>

(* Lines 320-323: KeyboardInterrupt is raised in the main thread wherever it *)
(* is, also inside organize_file, whose `except Exception` (line 157) does   *)
(* not catch it: the call is abandoned, with shutil.move either not yet or   *)
(* already done, and line 316 is not reached.                                *)
WatchLoopInterrupt ==
  /\ mode = "poll" /\ pc \in {"LoopTop", "Ticking", "Moving"}
  /\ pc' = "Stopped"
  /\ pending' = {}
  /\ cur' = <<>>
  /\ IF pc = "Moving"
     THEN /\ fs' \in {fs, organize_file(fs, locked, cur[1].src_path, FALSE).fs}
          /\ calls' = Called(cur[1].src_path)
     ELSE UNCHANGED <<fs, calls>>
  /\ UNCHANGED <<mode, locked, nextId, creations, processed_files, queue, acc,
                 ticks, passes, last, pre, dirty, sessionNew, baseline, seen, started, fn>>

-----------------------------------------------------------------------------
(* Web dashboard: organize_all_files (app.py) *)

AppCategories == {APP_FILE_EXTENSION_MAP[i][1] : i \in 1..Len(APP_FILE_EXTENSION_MAP)}

(* Lines 136-144: every category folder and Others, made when missing. *)
RECURSIVE EnsureFolders(_, _)
EnsureFolders(f, names) ==
  IF names = {} THEN f
  ELSE LET d == CHOOSE x \in names : TRUE
       IN  EnsureFolders(IF PathExists(f, d) THEN f ELSE Makedirs(f, d), names \ {d})

(* Mutant: a move that raises is counted as organized *)
organize_all_entry_optimistic(f, lk, entry) ==
  IF IsDir(f, entry) \/ Head(entry) = "." THEN [fs |-> f, counted |-> "skipped"]
  ELSE IF entry = PROTECTED_DIR THEN [fs |-> f, counted |-> "skipped"]
  ELSE
    LET category == app_get_category_for_file(entry)
        unique_filename == generate_unique_filename(Entries(f, category), entry)
    IN  IF ShutilMoveRaises(f, lk, entry, category)
        THEN [fs |-> f, counted |-> "organized"]
        ELSE [fs |-> ShutilMove(f, entry, category, unique_filename),
              counted |-> "organized"]

(* Lines 148-175: one entry of the listing: the filesystem it leaves and the *)
(* counter it increments.                                                    *)
organize_all_entry(f, lk, entry) ==
  IF IsDir(f, entry) \/ Head(entry) = "." THEN [fs |-> f, counted |-> "skipped"]
  ELSE IF entry = PROTECTED_DIR THEN [fs |-> f, counted |-> "skipped"]
  ELSE
    LET category == app_get_category_for_file(entry)
        destination_dir == category
        unique_filename == generate_unique_filename(Entries(f, destination_dir), entry)
    IN  IF ShutilMoveRaises(f, lk, entry, destination_dir)
        THEN [fs |-> f, counted |-> "errors"]
        ELSE [fs |-> ShutilMove(f, entry, destination_dir, unique_filename),
              counted |-> "organized"]

(* Ghost: the entry reaches shutil.move (line 171) and the move raises. *)
AppMoveFailed(f, lk, entry) ==
  /\ ~(IsDir(f, entry) \/ Head(entry) = "." \/ entry = PROTECTED_DIR)
  /\ ShutilMoveRaises(f, lk, entry, app_get_category_for_file(entry))

(* Lines 134-147: the folders, then os.listdir. *)
OrganizeAllBegin ==
  /\ mode = "web" /\ pc = "Idle"
  /\ passes < MaxPasses
  /\ passes' = passes + 1
  /\ pre' = fs
  /\ fs' = EnsureFolders(fs, AppCategories \cup {Others})
  /\ pending' = Listdir(fs')
  /\ acc' = [NoAcc EXCEPT !.clean = ~dirty,
                           !.listed = [files |-> fs'.files, dirs |-> DOMAIN fs'.dirs]]
  /\ dirty' = FALSE
  /\ pc' = "All"
  /\ UNCHANGED <<mode, locked, nextId, creations, processed_files, queue, cur, ticks,
                 last, calls, sessionNew, baseline, seen, started, fn>>

OrganizeAllEntry ==
  /\ mode = "web" /\ pc = "All" /\ pending # {}
  /\ \E entry \in NextEntries(pending, {e \in pending : IsDir(fs, e) \/ Head(e) = "."
                                                        \/ e = PROTECTED_DIR}) :
       LET r == organize_all_entry(fs, locked, entry)
       IN  /\ fs' = r.fs
           /\ acc' = [acc EXCEPT ![r.counted] = @ + 1,
                                 !.failed = IF AppMoveFailed(fs, locked, entry)
                                            THEN @ + 1 ELSE @]
           /\ pending' = pending \ {entry}
  /\ UNCHANGED <<mode, locked, nextId, creations, pc, processed_files, queue, cur,
                 ticks, passes, last, pre, dirty, calls, sessionNew, baseline, seen, started, fn>>

(* Line 177: return results. *)
OrganizeAllReturn ==
  /\ mode = "web" /\ pc = "All" /\ pending = {}
  /\ last' = Finished("organize_all_files")
  /\ pc' = "Idle"
  /\ acc' = NoAcc
  /\ UNCHANGED <<mode, fs, locked, nextId, creations, processed_files, queue, cur,
                 pending, ticks, passes, pre, dirty, calls, sessionNew, baseline,
                 seen, started, fn>>

-----------------------------------------------------------------------------------------------------------------------------------------------------
(* Web dashboard: protect_file and unprotect_file (app.py) *)

(* shutil.move(root/d/filename, root/unique), when it does not raise *)
ShutilMoveToRoot(f, d, filename, unique) ==
  [f EXCEPT !.dirs[d] = Remove(@, filename),
            !.files = (unique :> f.dirs[d][filename]) @@ @]

(* Mutant: the protected folder is made before the source is looked at *)
protect_file_unchecked(f, lk, filename) ==
  LET f1 == IF ~PathExists(f, PROTECTED_DIR) THEN Makedirs(f, PROTECTED_DIR) ELSE f
      unique_filename == generate_unique_filename(Entries(f1, PROTECTED_DIR), filename)
  IN  IF ShutilMoveRaises(f1, lk, filename, PROTECTED_DIR) THEN f1
      ELSE ShutilMove(f1, filename, PROTECTED_DIR, unique_filename)

(* protect_file with filepath = join(watch_dir, filename), lines 307-320: the *)
(* filesystem it leaves.                                                      *)
protect_file(f, lk, filename) ==
  IF ~PathExists(f, filename) THEN f
  ELSE LET f1 == IF ~PathExists(f, PROTECTED_DIR) THEN Makedirs(f, PROTECTED_DIR) ELSE f
           unique_filename == generate_unique_filename(Entries(f1, PROTECTED_DIR), filename)
       IN  IF ShutilMoveRaises(f1, lk, filename, PROTECTED_DIR) THEN f1
           ELSE ShutilMove(f1, filename, PROTECTED_DIR, unique_filename)

(* unprotect_file with filepath = join(watch_dir, PROTECTED_DIR, filename),  *)
(* lines 334-346: the filesystem it leaves.                                  *)
unprotect_file(f, lk, filename) ==
  IF ~(f.exists /\ filename \in Entries(f, PROTECTED_DIR)) THEN f
  ELSE LET unique == IF PathExists(f, filename)
                     THEN generate_unique_filename(Listdir(f), filename)
                     ELSE filename
       IN  IF f.dirs[PROTECTED_DIR][filename] \in lk THEN f
           ELSE ShutilMoveToRoot(f, PROTECTED_DIR, filename, unique)

(* POST /protect_file for a path at the root that is not a folder. *)
ProtectFile(filename) ==
  /\ mode = "web" /\ pc = "Idle"
  /\ passes < MaxPasses
  /\ ~IsDir(fs, filename)
  /\ passes' = passes + 1
  /\ fs' = protect_file(fs, locked, filename)
  /\ last' = [NoLast EXCEPT !.op = "protect_file", !.path = filename]
  /\ dirty' = (dirty \/ fs' # fs)
  /\ UNCHANGED <<mode, locked, nextId, creations, pc, processed_files, queue, cur,
                 pending, acc, ticks, pre, calls, sessionNew, baseline, seen, started, fn>>

(* POST /unprotect_file for a path in the protected folder. *)
UnprotectFile(filename) ==
  /\ mode = "web" /\ pc = "Idle"
  /\ passes < MaxPasses
  /\ passes' = passes + 1
  /\ fs' = unprotect_file(fs, locked, filename)
  /\ last' = [NoLast EXCEPT !.op = "unprotect_file", !.path = filename]
  /\ dirty' = (dirty \/ fs' # fs)
  /\ UNCHANGED <<mode, locked, nextId, creations, pc, processed_files, queue, cur,
                 pending, acc, ticks, pre, calls, sessionNew, baseline, seen, started, fn>>

-----
Next ==
  \/ \E n \in CreateNames, lk \in BOOLEAN : CreateFile(n, lk)
  \/ \E n \in EnvDirNames : CreateDir(n)
  \/ \E n \in CreateNames : Renotify(n)
  \/ \E n \in CreateNames : ModifyFile(n)
  \/ \E dry_run \in BOOLEAN : OrganizeDirectoryBegin(dry_run)
  \/ OrganizeDirectoryEntry
  \/ OrganizeDirectoryReturn
  \/ WatchDirectoryBegin
  \/ WatchDirectoryObserve
  \/ OnCreatedBegin
  \/ OnCreatedFinish
  \/ OnModified
  \/ WatchDirectoryInterrupt
  \/ WatchDirectoryJoin
  \/ WatchLoopBegin
  \/ WatchLoopList
  \/ WatchLoopEntry
  \/ WatchLoopOrganized
  \/ WatchLoopSleep
  \/ WatchLoopInterrupt
  \/ OrganizeAllBegin
  \/ OrganizeAllEntry
  \/ OrganizeAllReturn
  \/ \E n \in ProtectNames : ProtectFile(n)
  \/ \E n \in ProtectNames : UnprotectFile(n)

Spec == Init /\ [][Next]_vars

-----------------------------------------------------------------------------
(* The pure functions on their own: arguments drawn from bounded sets.       *)

FnFileNames ==
  {report_pdf, photo_jpg, new_mp3, notes_TXT, setup_EXE, archive_tar_gz, data_xyz,
   README, dot_env, dot_pdf, script_name, PROTECTED_DIR}

(* filename itself, its first MaxProbe renamings, and an unrelated name *)
Colliders(filename) ==
  {filename, stuff}
    \cup {Candidate(Stem(filename), k, Suffix(filename)) : k \in 1..MaxProbe}

InitFn ==
  /\ mode = "fn"
  /\ fs = LayoutEmpty
  /\ locked = {}
  /\ nextId = 1
  /\ creations = 0
  /\ pc = "Idle"
  /\ processed_files = {}
  /\ queue = <<>>
  /\ cur = <<>>
  /\ pending = {}
  /\ acc = NoAcc
  /\ ticks = 0
  /\ passes = 0
  /\ last = NoLast
  /\ pre = fs
  /\ dirty = TRUE
  /\ calls = EmptyDir
  /\ sessionNew = {}
  /\ baseline = FALSE
  /\ seen = {}
  /\ started = NoStart
  /\ \E f \in FnFileNames : \E e \in SUBSET Colliders(f) :
       fn = [NoFn EXCEPT !.entries = e, !.filename = f]

FnFrame ==
  UNCHANGED <<mode, fs, locked, nextId, creations, pc, processed_files, queue, cur,
              pending, acc, ticks, passes, last, pre, dirty, calls, sessionNew,
              baseline, seen, started>>

CallGenerateUniqueFilename ==
  /\ mode = "fn" /\ fn.op = "none"
  /\ fn' = [fn EXCEPT !.op = "generate_unique_filename",
                      !.ret = generate_unique_filename(fn.entries, fn.filename)]
  /\ FnFrame

CallGetCategoryForFile ==
  /\ mode = "fn" /\ fn.op = "none"
  /\ fn' = [fn EXCEPT !.op = "get_category_for_file",
                      !.ret = get_category_for_file(fn.filename)]
  /\ FnFrame

CallAppGetCategoryForFile ==
  /\ mode = "fn" /\ fn.op = "none"
  /\ fn' = [fn EXCEPT !.op = "app.get_category_for_file",
                      !.ret = app_get_category_for_file(fn.filename)]
  /\ FnFrame

(* generate_unique_filename run statement by statement.  Lines 76-86: the    *)
(* name as given is tested; free, it is returned; taken, counter = 1.        *)
UniqueBegin ==
  /\ mode = "fn" /\ fn.op = "none"
  /\ fn' = IF fn.filename \notin fn.entries
           THEN [fn EXCEPT !.op = "unique.returned", !.ret = fn.filename]
           ELSE [fn EXCEPT !.op = "unique.loop", !.counter = 1]
  /\ FnFrame

(* Mutant: a taken candidate advances the counter by two *)
UniqueProbeSkipping ==
  /\ mode = "fn" /\ fn.op = "unique.loop"
  /\ fn.counter <= MaxProbe + 1
  /\ LET new_filename == Candidate(Stem(fn.filename), fn.counter, Suffix(fn.filename))
     IN  fn' = IF new_filename \notin fn.entries
               THEN [fn EXCEPT !.op = "unique.returned", !.ret = new_filename,
                               !.probed = Append(@, fn.counter)]
               ELSE [fn EXCEPT !.counter = @ + 2, !.probed = Append(@, fn.counter)]
  /\ FnFrame

(* Lines 87-92: one iteration of `while True`.  The names in entries carry   *)
(* counters up to MaxProbe, which bounds the counter.                        *)
UniqueProbe ==
  /\ mode = "fn" /\ fn.op = "unique.loop"
  /\ fn.counter <= MaxProbe + 1
  /\ LET new_filename == Candidate(Stem(fn.filename), fn.counter, Suffix(fn.filename))
     IN  fn' = IF new_filename \notin fn.entries
               THEN [fn EXCEPT !.op = "unique.returned", !.ret = new_filename,
                               !.probed = Append(@, fn.counter)]
               ELSE [fn EXCEPT !.counter = @ + 1, !.probed = Append(@, fn.counter)]
  /\ FnFrame

NextFn ==
  \/ CallGenerateUniqueFilename
  \/ UniqueBegin
  \/ UniqueProbe
  \/ CallGetCategoryForFile
  \/ CallAppGetCategoryForFile

SpecFn == InitFn /\ [][NextFn]_vars

-----------------------------------------------------------------------------
(* C5: generate_unique_filename returns filename unchanged when nothing of   *)
(* that name exists in the destination; otherwise it returns stem(k)ext for  *)
(* the smallest k >= 1 whose stem(k)ext does not exist there (stem(n+1)ext   *)
(* when filename and stem(1)..stem(n) all exist); the name it returns never  *)
(* names an existing entry.                                                  *)
Renamed(filename, k) == Candidate(Stem(filename), k, Suffix(filename))

FreeCounters(entries, filename) ==
  {k \in 1..(Cardinality(entries) + 1) : Renamed(filename, k) \notin entries}

UniqueNameIsFirstFree ==
  fn.op = "generate_unique_filename" =>
    LET free == FreeCounters(fn.entries, fn.filename)
        first == CHOOSE k \in free : \A j \in free : k <= j
    IN  /\ fn.ret \notin fn.entries
        /\ fn.filename \notin fn.entries => fn.ret = fn.filename
        /\ fn.filename \in fn.entries => fn.ret = Renamed(fn.filename, first)
        /\ \A n \in 1..MaxProbe :
             ({fn.filename} \cup {Renamed(fn.filename, k) : k \in 1..n} \subseteq fn.entries
              /\ Renamed(fn.filename, n + 1) \notin fn.entries)
               => fn.ret = Renamed(fn.filename, n + 1)

(* report.pdf with report.pdf, report(1).pdf and report(2).pdf present *)
UniqueNameWitness ==
  /\ fn.op = "generate_unique_filename"
  /\ fn.filename = report_pdf
  /\ {report_pdf, Renamed(report_pdf, 1), Renamed(report_pdf, 2)} \subseteq fn.entries
  /\ Renamed(report_pdf, 3) \notin fn.entries
  /\ fn.ret = <<"r","e","p","o","r","t","(","3",")",".","p","d","f">>

(* C6: get_category_for_file is total: a filename that ends, whatever the    *)
(* case, in an extension the table lists (after a non-empty stem) gets the   *)
(* category listing that extension; every other filename gets Others.  Both  *)
(* tables: file_organizer.py's and app.py's.                                 *)
EndsWithExtension(filename, ext) ==
  /\ Len(filename) > Len(ext)
  /\ Lower(SubSeq(filename, Len(filename) - Len(ext) + 1, Len(filename))) = ext

CategoryAsConfigured(map, filename, ret) ==
  LET listing == {i \in 1..Len(map) : \E ext \in map[i][2] : EndsWithExtension(filename, ext)}
  IN  /\ \A i \in listing : ret = map[i][1]
      /\ listing = {} => ret = Others

CategoryForIsTotal ==
  /\ fn.op = "get_category_for_file"
       => CategoryAsConfigured(FILE_EXTENSION_MAP, fn.filename, fn.ret)
  /\ fn.op = "app.get_category_for_file"
       => CategoryAsConfigured(APP_FILE_EXTENSION_MAP, fn.filename, fn.ret)

(* notes.TXT is a document, data.xyz and README are not in the table *)
CategoryForWitness ==
  /\ fn.op = "get_category_for_file"
  /\ \/ fn.filename = notes_TXT /\ fn.ret = Documents
     \/ fn.filename = setup_EXE /\ fn.ret = Executables

-----------------------------------------------------------------------------
(* Claims about the passes and the watch sessions *)

InSession == mode \in {"event", "poll"}
               /\ pc \in {"Running", "Stopping", "LoopTop", "Ticking", "Moving", "Stopped"}
               /\ started # NoStart

PassFinished ==
  pc = "Idle" /\ last.op \in {"organize_directory", "organize_all_files"}

(* C1: at most once in watch mode: a file created at the root while the      *)
(* session is Running is passed to organize_file at most once in the whole   *)
(* session, whatever that call returned and however many notifications or    *)
(* ticks follow.                                                             *)
AtMostOnceInWatch == \A i \in sessionNew : calls[i] <= 1

(* C2: in polling mode a root file that organize_file was called on is in    *)
(* the processed set from then on, as long as the session runs, whether the  *)
(* move succeeded or failed.                                                 *)
PollRecordsEveryAttempt ==
  (mode = "poll" /\ pc # "Stopped") =>
    \A n \in DOMAIN fs.files : calls[fs.files[n]] >= 1 => n \in processed_files

(* C3: a dry-run pass leaves the files and folders under watch_directory as  *)
(* they were.                                                                *)
DryRunLeavesFilesystem ==
  (PassFinished /\ last.dry) => fs = pre

ScenarioPassFinished ==
  PassFinished /\ ~last.dry /\ pre = LayoutScenario /\ locked = {}

ScenarioLayoutAfter ==
  /\ DOMAIN fs.files = {}
  /\ fs.dirs[Documents] = File(report_pdf, 4) @@ File(Renamed(report_pdf, 1), 1)
  /\ fs.dirs[Images] = File(photo_jpg, 2)
  /\ fs.dirs[Code] = File(script_py, 3)

(* C7 as stated: the pass returns organized = 2, errors = 0, skipped = 0 and *)
(* report.pdf ends up as Documents/report(1).pdf beside the untouched        *)
(* Documents/report.pdf.                                                     *)
ScenarioCountsTwo ==
  ScenarioPassFinished =>
    /\ last.organized = 2 /\ last.errors = 0 /\ last.skipped = 0
    /\ ScenarioLayoutAfter

(* C7 as the code has it: all three root files are moved, so the pass        *)
(* returns 3 (organize_directory) or organized = 3, errors = 0, skipped = 7, *)
(* the seven category folders it lists (organize_all_files); report.pdf ends *)
(* up as Documents/report(1).pdf beside the untouched Documents/report.pdf.  *)
ScenarioCountsThree ==
  ScenarioPassFinished =>
    /\ last.organized = 3
    /\ last.op = "organize_all_files" => (last.errors = 0 /\ last.skipped = 7)
    /\ ScenarioLayoutAfter

ScenarioWitness ==
  ScenarioPassFinished /\ last.op = "organize_all_files" /\ last.organized = 3

(* C8: in polling mode every file newly created at the root is organized no  *)
(* later than the first tick that lists it.                                  *)
PollOrganizesByNextTick ==
  (mode = "poll" /\ pc = "LoopTop" /\ ticks > 0) =>
    \A i \in seen \cap sessionNew : calls[i] >= 1

(* C9: the session is Running only after its full organize pass.             *)
BaselineBeforeRunning ==
  (mode \in {"event", "poll"} /\ pc \in {"Running", "LoopTop", "Ticking", "Moving"})
    => baseline

(* C10 as stated: when the session begins Running the processed set holds    *)
(* every entry then present at the root.                                     *)
SeededWithEveryEntry == InSession => started.root \subseteq started.processed

(* C10 as the code has it: the polling session begins Running with exactly   *)
(* the regular files then at the root in its processed set, the event-driven *)
(* one with an empty set; in both, no file older than the Running phase is   *)
(* ever passed to organize_file by the session.                              *)
SeededAsCoded ==
  InSession =>
    /\ mode = "poll" => started.processed = started.files
    /\ mode = "event" => started.processed = {}
    /\ \A i \in DOMAIN calls \ sessionNew : calls[i] = 0

(* a polling session has finished a tick over a root that held files when it *)
(* began, and they are still there                                           *)
SeededWitness ==
  /\ InSession /\ mode = "poll" /\ pc = "LoopTop" /\ ticks >= 1
  /\ started.files # {}
  /\ started.files \subseteq DOMAIN fs.files

(* C11: a failed move inside a full pass is counted in the result the pass  *)
(* returns: the error count of a finished pass equals the number of moves    *)
(* that raised during it.                                                    *)
FailuresCounted ==
  (PassFinished /\ ~last.dry) => last.errors = last.failed

(* C12: a full pass on a watch directory that does not exist returns an      *)
(* all-zero result and leaves the filesystem as it was: neither the watch    *)
(* directory nor any category folder is created.                             *)
MissingDirectoryUntouched ==
  (PassFinished /\ ~pre.exists) =>
    /\ fs = pre
    /\ last.organized = 0 /\ last.errors = 0 /\ last.skipped = 0

(* C13: a stop request is cooperative in both watch modes: a call of        *)
(* organize_file that is in progress returns before the session is Stopped,  *)
(* and once the stop is requested no further notification is taken up and no *)
(* further tick is started.                                                  *)
CooperativeStop ==
  [][/\ cur # <<>> => pc' # "Stopped"
     /\ pc \in {"Stopping", "Stopped"} => (cur' \in {cur, <<>>} /\ ticks' = ticks)]_vars

(* C14: within a watch session at most one call of organize_file is in      *)
(* progress at any time, also while further creation notifications wait; and *)
(* none is in progress outside the handler or the tick's loop body.          *)
SingleStream ==
  mode \in {"event", "poll"} =>
    /\ Len(cur) <= 1
    /\ cur # <<>> => pc \in {"Running", "Stopping", "Moving"}

(* a file's notification is being handled while another file's waits *)
SingleStreamWitness ==
  /\ mode = "event" /\ pc = "Running"
  /\ cur # <<>> /\ queue # <<>>
  /\ ~Head(queue).is_directory
  /\ Head(queue).src_path # cur[1].src_path

(* C15: in event mode, while one notification is in its settle delay, a     *)
(* notification for another path that has already arrived can be taken up by *)
(* the handler without waiting for that delay to end.                        *)
SettleDelayBlocksNoOther ==
  (/\ mode = "event" /\ pc = "Running"
   /\ cur # <<>> /\ queue # <<>>
   /\ ~Head(queue).is_directory
   /\ Head(queue).src_path # cur[1].src_path) => ENABLED OnCreatedBegin

(* C16: after a successful organize (not a dry run) of a root file, the     *)
(* file is directly in the folder of its category (Others when its extension *)
(* is in no category), under its own name or a stem(k)ext name that was free *)
(* there, and is no longer at the root. Placed compares the filesystem f     *)
(* before with g after, for the root file n and the category table map.      *)
Placed(f, g, n, map) ==
  /\ n \notin DOMAIN g.files
  /\ \E d \in DOMAIN g.dirs :
       /\ \E m \in DOMAIN g.dirs[d] :
            /\ g.dirs[d][m] = f.files[n]
            /\ m \notin Entries(f, d)
            /\ m = n \/ \E k \in 1..Cardinality(DOMAIN g.dirs[d]) : m = Renamed(n, k)
       /\ CategoryAsConfigured(map, n, d)

(* The step is a call of organize on the root file n that returns success:   *)
(* counted by a pass that is not a dry run, recorded by the polling loop, or *)
(* made by the event handler.                                                *)
OrganizeSucceeds(n) ==
  \/ /\ pc \in {"Pass", "All"} /\ ~acc.dry
     /\ n \in pending /\ pending' = pending \ {n}
     /\ acc'.organized = acc.organized + 1
  \/ /\ mode = "poll" /\ pc = "Moving" /\ pc' = "Ticking"
     /\ cur[1].src_path = n
     /\ n \in processed_files' \ processed_files
  \/ /\ mode = "event" /\ cur # <<>> /\ cur' = <<>>
     /\ cur[1].src_path = n
     /\ n \notin processed_files
     /\ organize_file(fs, locked, n, FALSE).ret

OrganizedLayout ==
  [][\A n \in DOMAIN fs.files :
       OrganizeSucceeds(n)
         => Placed(fs, fs', n, IF mode = "web" THEN APP_FILE_EXTENSION_MAP
                                               ELSE FILE_EXTENSION_MAP)]_vars

(* report.pdf has been moved from the root to Documents, which held a        *)
(* report.pdf already, as report(1).pdf                                      *)
OrganizedLayoutWitness ==
  /\ pre = LayoutScenario
  /\ report_pdf \notin DOMAIN fs.files
  /\ IsDir(fs, Documents)
  /\ Renamed(report_pdf, 1) \in DOMAIN fs.dirs[Documents]
  /\ fs.dirs[Documents][Renamed(report_pdf, 1)] = 1

(* C17: in event mode the handling of a modification notification calls    *)
(* organize_file on nothing and leaves the processed set and the filesystem  *)
(* as they were, whether or not the path had been handled before.            *)
ModificationIgnored ==
  [][(/\ mode = "event" /\ queue # <<>>
      /\ Head(queue).event_type = "modified"
      /\ queue' = Tail(queue))
       => UNCHANGED <<fs, processed_files, calls, cur>>]_vars

(* a modification has been taken up of a path that on_created had handled   *)
(* and organize_file had moved                                               *)
ModificationIgnoredWitness ==
  /\ mode = "event" /\ last.op = "on_modified"
  /\ last.path \in processed_files
  /\ last.path \notin DOMAIN fs.files

(* C18: a root entry that bears the reserved name protected_files, folder   *)
(* or regular file, is never moved: it stays at the root, the same entry.    *)
ReservedNameStays ==
  [][(PROTECTED_DIR \in Listdir(fs)) =>
       (/\ PROTECTED_DIR \in Listdir(fs')
        /\ IsDir(fs, PROTECTED_DIR) => IsDir(fs', PROTECTED_DIR)
        /\ IsFile(fs, PROTECTED_DIR) =>
             (/\ IsFile(fs', PROTECTED_DIR)
              /\ fs'.files[PROTECTED_DIR] = fs.files[PROTECTED_DIR]))]_vars

(* C19 as stated: protect and unprotect of a path that does not exist       *)
(* change nothing; of a path that exists, protect leaves the file in         *)
(* protected_files and unprotect leaves it at the root, no longer where it   *)
(* was.                                                                      *)
RequestStep == mode = "web" /\ pc = "Idle" /\ pc' = "Idle" /\ passes' # passes

ProtectAlwaysMoves ==
  [][RequestStep =>
       LET filename == last'.path
       IN  /\ last'.op = "protect_file" =>
                IF ~PathExists(fs, filename) THEN fs' = fs
                ELSE /\ filename \notin DOMAIN fs'.files
                     /\ IsDir(fs', PROTECTED_DIR)
                     /\ \E m \in DOMAIN fs'.dirs[PROTECTED_DIR] :
                          fs'.dirs[PROTECTED_DIR][m] = fs.files[filename]
           /\ last'.op = "unprotect_file" =>
                IF ~(fs.exists /\ filename \in Entries(fs, PROTECTED_DIR)) THEN fs' = fs
                ELSE /\ filename \notin Entries(fs', PROTECTED_DIR)
                     /\ \E m \in DOMAIN fs'.files :
                          fs'.files[m] = fs.dirs[PROTECTED_DIR][filename]]_vars

(* C19 as the code has it: protect and unprotect of a path that does not     *)
(* exist change nothing, no folder is made; of a file that exists, protect   *)
(* leaves it in protected_files and unprotect leaves it at the root, under   *)
(* its own name when that is free there and else under the first free        *)
(* stem(k)ext, and every other entry stays where it was, unless the move     *)
(* raises, which leaves the file where it was. f is the filesystem before    *)
(* the request, g the one after.                                             *)
NameGiven(taken, filename, m) ==
  /\ m \notin taken
  /\ filename \notin taken => m = filename
  /\ filename \in taken =>
       \E k \in 1..(Cardinality(taken) + 1) :
         /\ m = Renamed(filename, k)
         /\ \A j \in 1..(k - 1) : Renamed(filename, j) \in taken

Protected(f, g, filename) ==
  IF ~PathExists(f, filename) THEN g = f
  ELSE /\ IsDir(g, PROTECTED_DIR) \/ IsFile(f, PROTECTED_DIR)
       /\ \A d \in DOMAIN f.dirs \ {PROTECTED_DIR} : d \in DOMAIN g.dirs /\ g.dirs[d] = f.dirs[d]
       /\ IF f.files[filename] \in locked \/ IsFile(f, PROTECTED_DIR)
          THEN g.files = f.files /\ Entries(g, PROTECTED_DIR) = Entries(f, PROTECTED_DIR)
          ELSE /\ g.files = Remove(f.files, filename)
               /\ \E m \in DOMAIN g.dirs[PROTECTED_DIR] :
                    /\ g.dirs[PROTECTED_DIR][m] = f.files[filename]
                    /\ NameGiven(Entries(f, PROTECTED_DIR), filename, m)
                    /\ Remove(g.dirs[PROTECTED_DIR], m)
                         = IF IsDir(f, PROTECTED_DIR) THEN f.dirs[PROTECTED_DIR] ELSE EmptyDir

Unprotected(f, g, filename) ==
  IF ~(f.exists /\ filename \in Entries(f, PROTECTED_DIR)) THEN g = f
  ELSE IF f.dirs[PROTECTED_DIR][filename] \in locked THEN g = f
  ELSE /\ g.dirs = [f.dirs EXCEPT ![PROTECTED_DIR] = Remove(@, filename)]
       /\ \E m \in DOMAIN g.files :
            /\ g.files[m] = f.dirs[PROTECTED_DIR][filename]
            /\ NameGiven(Listdir(f), filename, m)
            /\ Remove(g.files, m) = f.files

ProtectUnprotect ==
  [][RequestStep =>
       (/\ last'.op = "protect_file" => Protected(fs, fs', last'.path)
        /\ last'.op = "unprotect_file" => Unprotected(fs, fs', last'.path))]_vars

(* report.pdf has been taken out of the protected folder to a root that held *)
(* a report.pdf: it is report(1).pdf there                                   *)
ProtectUnprotectWitness ==
  /\ mode = "web" /\ last.op = "unprotect_file" /\ last.path = report_pdf
  /\ pre = LayoutVault
  /\ Renamed(report_pdf, 1) \in DOMAIN fs.files
  /\ fs.files[Renamed(report_pdf, 1)] = 2
  /\ fs.files[report_pdf] = 1

(* C20: folders are never relocated. In every reachable state a call of     *)
(* organize_file on a folder at the root would return False and leave the    *)
(* filesystem as it is; the step of a pass or of a tick that visits a folder *)
(* changes nothing and counts nothing as organized; no step removes a folder *)
(* from the root; and the step that takes up the notification of a created   *)
(* folder calls organize_file on nothing and leaves the processed set alone. *)
DirectoriesStay ==
  /\ [](\A d \in DOMAIN fs.dirs, dry_run \in BOOLEAN :
         /\ organize_file(fs, locked, d, dry_run) = [fs |-> fs, ret |-> FALSE]
         /\ organize_all_entry(fs, locked, d) = [fs |-> fs, counted |-> "skipped"])
  /\ [][(DOMAIN fs.dirs \subseteq DOMAIN fs'.dirs)
        /\ (\A d \in DOMAIN fs.dirs :
              (pc \in {"Pass", "All", "Ticking"} /\ d \in pending /\ pending' = pending \ {d})
                => (fs' = fs /\ acc'.organized = acc.organized /\ UNCHANGED <<calls, cur>>))
        /\ ((mode = "event" /\ queue # <<>> /\ Head(queue).is_directory
                            /\ queue' = Tail(queue))
              => UNCHANGED <<fs, processed_files, calls, cur>>)]_vars

(* a folder was created while the event-driven session was running and its  *)
(* notification has been taken up; it is still at the root                   *)
DirectoriesStayWitness ==
  /\ mode = "event" /\ pc = "Running"
  /\ stuff \in DOMAIN fs.dirs /\ stuff \notin started.root
  /\ \A i \in 1..Len(queue) : ~queue[i].is_directory

(* C21: a root entry that bears the script's own name, file_organizer.py, is *)
(* never relocated: a call of organize_file on it returns False and leaves   *)
(* the filesystem as it is, no folder made, and no step of an organize       *)
(* operation takes the entry from the root.                                  *)
ScriptNameStays ==
  /\ [](\A dry_run \in BOOLEAN :
         organize_file(fs, locked, script_name, dry_run) = [fs |-> fs, ret |-> FALSE])
  /\ [][IsFile(fs, script_name) =>
          (IsFile(fs', script_name) /\ fs'.files[script_name] = fs.files[script_name])]_vars

(* C22: no overwrite, no loss. Every file that was ever under the watch      *)
(* directory is under it still, at exactly one place, so the number of       *)
(* regular files changes only by what the environment creates; and no step   *)
(* puts another file at a place (root, category folder or protected folder,  *)
(* and name) that held a file before the step.                               *)
Located(f) ==
  {<<<<>>, n>> : n \in DOMAIN f.files}
    \cup UNION {{<<d, n>> : n \in DOMAIN f.dirs[d]} : d \in DOMAIN f.dirs}

IdAt(f, place) ==
  IF place[1] = <<>> THEN f.files[place[2]] ELSE f.dirs[place[1]][place[2]]

NoOverwriteNoLoss ==
  /\ [](/\ Ids(fs) = 1..(nextId - 1)
        /\ Cardinality(Located(fs)) = nextId - 1)
  /\ [][\A place \in Located(fs) \cap Located(fs') : IdAt(fs', place) = IdAt(fs, place)]_vars

(* report.pdf has been protected into a folder that held a report.pdf: both *)
(* files are there                                                           *)
NoOverwriteWitness ==
  /\ mode = "web" /\ last.op = "protect_file"
  /\ IsDir(fs, PROTECTED_DIR)
  /\ report_pdf \in DOMAIN fs.dirs[PROTECTED_DIR]
  /\ Renamed(report_pdf, 1) \in DOMAIN fs.dirs[PROTECTED_DIR]
  /\ fs.dirs[PROTECTED_DIR][report_pdf] = 2
  /\ fs.dirs[PROTECTED_DIR][Renamed(report_pdf, 1)] = 1

(* C23: in a pass of app.organize_all_files every entry of the listing is   *)
(* counted once, in organized, errors or skipped: at each point of the loop  *)
(* the three counters and the entries still to visit add up to the number    *)
(* listed, and organized is the number of root files the pass has moved out  *)
(* of the root; the dictionary returned has these totals.                    *)
ListedByPass == DOMAIN acc.listed.files \cup acc.listed.dirs

MovedByPass(f) ==
  {n \in DOMAIN acc.listed.files : acc.listed.files[n] \notin RootIds(f)}

Accounted(results, f, left) ==
  /\ results.organized + results.errors + results.skipped + left
       = Cardinality(ListedByPass)
  /\ results.organized = Cardinality(MovedByPass(f))

ResultAccounting ==
  /\ []((mode = "web" /\ pc = "All") => Accounted(acc, fs, Cardinality(pending)))
  /\ [][(mode = "web" /\ pc = "All" /\ pc' = "Idle")
         => (last'.op = "organize_all_files" /\ Accounted(last', fs', 0))]_vars

(* a pass is about to return with files moved, a move that raised and       *)
(* entries skipped                                                           *)
ResultAccountingWitness ==
  /\ mode = "web" /\ pc = "All" /\ pending = {}
  /\ acc.organized >= 1 /\ acc.errors >= 1 /\ acc.skipped >= 1
  /\ Accounted(acc, fs, 0)

(* C24: generate_unique_filename terminates when the destination's names do *)
(* not change.  While it loops another iteration can always be taken, the    *)
(* counters tested are 1, 2, ... in this order with none left out, each      *)
(* tested name but the one returned exists, the name returned was tested     *)
(* last and does not exist, and with n names of the form stem(k)ext in the   *)
(* destination at most n + 1 names are tested.                               *)
ExistingCandidates(entries, filename) ==
  {k \in 1..MaxProbe : Candidate(Stem(filename), k, Suffix(filename)) \in entries}

UniqueNamerTerminates ==
  fn.op \in {"unique.loop", "unique.returned"} =>
    LET n == Cardinality(ExistingCandidates(fn.entries, fn.filename))
        tested == Len(fn.probed)
        name(k) == Candidate(Stem(fn.filename), k, Suffix(fn.filename))
    IN  /\ tested <= n + 1
        /\ \A i \in 1..tested : fn.probed[i] = i
        /\ fn.op = "unique.loop" =>
             /\ fn.counter = tested + 1
             /\ fn.counter <= n + 1
             /\ \A i \in 1..tested : name(i) \in fn.entries
             /\ ENABLED UniqueProbe
        /\ fn.op = "unique.returned" =>
             /\ fn.ret \notin fn.entries
             /\ \A i \in 1..(tested - 1) : name(i) \in fn.entries
             /\ tested = 0 => fn.ret = fn.filename
             /\ tested > 0 => fn.ret = name(tested)
             /\ fn.ret = generate_unique_filename(fn.entries, fn.filename)

(* report.pdf, report(1).pdf and report(3).pdf exist: two existing          *)
(* candidates, two names tested, report(2).pdf returned                      *)
UniqueNamerTerminatesWitness ==
  /\ fn.op = "unique.returned"
  /\ fn.filename = report_pdf
  /\ fn.entries = {report_pdf, Candidate(Stem(report_pdf), 1, Suffix(report_pdf)),
                   Candidate(Stem(report_pdf), 3, Suffix(report_pdf))}
  /\ fn.probed = <<1, 2>>
  /\ fn.ret = <<"r","e","p","o","r","t","(","2",")",".","p","d","f">>

====
